---- MODULE Spec2Model ----
(***************************************************************************)
(* Epic Events CRM: the controllers of src/app/controllers (clients,       *)
(* contracts, events) and the permission table of src/app/authentication,  *)
(* as a state machine over the stored tables.                              *)
(*                                                                         *)
(* A table is a sequence of rows; a row's id is its index (autoincrement   *)
(* primary key, no controller deletes a row).  Every controller call is    *)
(* one action.  A call that raises inside the controller's try block ends  *)
(* in session.rollback(), which discards every attribute set since the     *)
(* last commit: the stored row is then the row before the call.            *)
(***************************************************************************)
EXTENDS Integers, Sequences, FiniteSets, TLC

VARIABLES
    employees,   \* id -> role name (Employee.department)
    clients,     \* table clients
    contracts,   \* table contracts
    events,      \* table events
    last,        \* the last controller call: operation, actor, target, outcome
    tokens,      \* the access tokens issued so far (their payloads)
    now,         \* the clock, in minutes
    sessions,    \* the update_contract calls under way, one database session each
    menu         \* the menu session of main.py: its employee object and token

vars == <<employees, clients, contracts, events, last, tokens, now, menu, sessions>>

\* what the controllers of clients, contracts and events never touch
authVars == <<tokens, now, menu, sessions>>

----------------------------------------------------------------------------
(* Bounds of the model *)

MaxClients == 1
MaxContracts == 1
MaxEvents == 1
MaxAmount == 2
MaxTime == 2
MaxFields == 2
MaxClock == 4
MaxTokens == 2
MaxEmployees == 3
MaxSessions == 2

----------------------------------------------------------------------------
(* Values *)

\* SQL NULL / Python None for an id or a timestamp (ids and times start at 1)
NULL == 0

\* an id that names no row of any table
MissingId == 9

\* amounts offered to the controllers: negative, zero, and up to MaxAmount
Amounts == (0 - 1)..MaxAmount

\* ids offered as a new sales contact or as an owner filter: none, the two
\* Commercial employees, a Support employee, and an id of no employee
SalesIdInputs == {NULL, 2, 3, 4, MissingId}

\* contract ids offered to the event controller: the three contracts of
\* SeededContracts and an id of no contract
ContractIdInputs == {1, 2, 3, MissingId}

\* ids offered as a new support contact or as a support filter: none, the
\* Gestion employee, a Commercial employee, the two Support employees, no employee
SupportIdInputs == {NULL, 1, 2, 4, 5, MissingId}

Names == {"n1", "n2"}
\* "" is the empty input; "bad" fails the format check
Emails == {"", "bad", "e1", "e2"}
Phones == {"", "bad", "p1"}
Companies == {"", "c1"}
Places == {"l1", "l2"}
Notes == {"t1", "t2"}

\* the controller's outcomes: the entity, None, a raised PermissionError, a list
RetEntity == "entity"
RetNone == "None"
RetDenied == "PermissionError"
RetList == "list"

EmptyKw == [x \in {} |-> NULL]

Opt(key, values) == {EmptyKw} \cup {key :> v : v \in values}

Has(kw, key) == key \in DOMAIN kw

Outcome(op, actor, target, ret, rows) ==
    [op |-> op, actor |-> actor, target |-> target, ret |-> ret, rows |-> rows]

----------------------------------------------------------------------------
(* authentication.py *)

PERMISSIONS ==
    [Gestion |->
        {"create_employee", "view_employees", "update_employee", "delete_employee",
         "create_client", "view_clients", "update_client",
         "create_contract", "view_contracts", "update_contract",
         "create_event", "view_events", "update_event"},
     Commercial |->
        {"view_employees",
         "create_client", "view_clients", "update_client",
         "create_contract", "view_contracts", "update_contract",
         "view_events"},
     Support |->
        {"view_employees", "view_clients", "view_contracts",
         "view_events", "update_event"}]

department(a) == employees[a]

\* the department of an employee without a role (None)
NoRole == "None"

\* the keys of each role's dictionary, granted or not
ListedActions ==
    {"create_employee", "view_employees", "update_employee", "delete_employee",
     "create_client", "view_clients", "update_client",
     "create_contract", "view_contracts", "update_contract",
     "create_event", "view_events", "update_event"}

\* a default of everything for a role the table does not know
PermitsUnknownRole(dept, action) ==
    dept \in DOMAIN PERMISSIONS => action \in PERMISSIONS[dept]

\* PERMISSIONS.get(dept, {}).get(action, False)
Permits(dept, action) ==
    /\ dept \in DOMAIN PERMISSIONS
    /\ action \in PERMISSIONS[dept]

check_permission(a, action) == Permits(department(a), action)

\* the action name each controller passes to check_permission; update_event
\* passes none and tests the department itself
ActionOf ==
    [create_client |-> "create_client", list_clients |-> "view_clients",
     update_client |-> "update_client", create_contract |-> "create_contract",
     list_contracts |-> "view_contracts", update_contract |-> "update_contract",
     create_event |-> "create_event", list_events |-> "view_events",
     update_event |-> "update_event"]

\* minutes a token lives
ACCESS_TOKEN_EXPIRE_MINUTES == 3

\* the payload create_access_token signs at time t; signed tells whether the
\* signature verifies under SECRET_KEY
TokenPayload(e, dept, t) ==
    [sub |-> e, department |-> dept, exp |-> t + ACCESS_TOKEN_EXPIRE_MINUTES,
     signed |-> TRUE]

\* the department slot of an employee row that has been deleted
Deleted == "deleted"

\* session.query(Employee).filter_by(id=e).one_or_none() finds a row
Exists(e) == e \in DOMAIN employees /\ employees[e] # Deleted

\* a token is issued for an employee, with the department the record has then
create_access_token(e) ==
    /\ Exists(e)
    /\ Cardinality(tokens \cup {TokenPayload(e, department(e), now)}) <= MaxTokens
    /\ tokens' = tokens \cup {TokenPayload(e, department(e), now)}
    /\ last' = Outcome("create_access_token", e, NULL, RetEntity, {})
    /\ UNCHANGED <<employees, clients, contracts, events, now, menu, sessions>>

\* jwt.decode without the check of the exp claim
DecodeWithoutExpiry(tok) == tok.signed

\* jwt.decode accepts the token: the signature verifies and exp is ahead
decode_access_token(tok) == tok.signed /\ now < tok.exp

\* the employee the token resolves to, or NULL
TokenEmployee(tok) ==
    IF decode_access_token(tok) /\ Exists(tok.sub)
    THEN tok.sub ELSE NULL

get_employee_from_token(tok) ==
    /\ last' = Outcome("get_employee_from_token", tok.sub, TokenEmployee(tok),
                    IF TokenEmployee(tok) # NULL THEN RetEntity ELSE RetNone, {tok})
    /\ UNCHANGED <<employees, clients, contracts, events, authVars>>

\* time passes
Tick ==
    /\ now < MaxClock
    /\ now' = now + 1
    /\ UNCHANGED <<employees, clients, contracts, events, last, tokens, menu, sessions>>

Roles == DOMAIN PERMISSIONS

\* a Gestion employee gives employee e the role r (the employee controller
\* the views call: update_employee(session, current_user, id, department=r))
update_employee(m, e, r) ==
    /\ IF ~check_permission(m, "update_employee")
       THEN /\ last' = Outcome("update_employee", m, e, RetDenied, {})
            /\ UNCHANGED employees
       ELSE IF e \notin DOMAIN employees
       THEN /\ last' = Outcome("update_employee", m, e, RetNone, {})
            /\ UNCHANGED employees
       ELSE /\ employees' = [employees EXCEPT ![e] = r]
            /\ last' = Outcome("update_employee", m, e, RetEntity, {})
    /\ UNCHANGED <<clients, contracts, events, authVars>>

GestionCount ==
    Cardinality({e \in DOMAIN employees : employees[e] = "Gestion"})

\* delete_employee without the count of the Gestion employees
NeverLastGestion(e) == FALSE

\* the employee to delete is the only Gestion employee left
LastGestion(e) == employees[e] = "Gestion" /\ GestionCount = 1

\* employee_controller.delete_employee(session, employee_id), as its tests
\* and its caller in views/employee_views.py use it: False for a missing id
\* and for the last Gestion employee, True after the delete
delete_employee(e) ==
    /\ IF ~Exists(e)
       THEN /\ last' = Outcome("delete_employee", NULL, e, FALSE, {})
            /\ UNCHANGED employees
       ELSE IF LastGestion(e)
       THEN /\ last' = Outcome("delete_employee", NULL, e, FALSE, {})
            /\ UNCHANGED employees
       ELSE /\ employees' = [employees EXCEPT ![e] = Deleted]
            /\ last' = Outcome("delete_employee", NULL, e, TRUE, {})
    /\ UNCHANGED <<clients, contracts, events, authVars>>

----------------------------------------------------------------------------
(* controllers/utils.py *)

is_valid_email(e) == e \in {"e1", "e2"}

is_valid_phone(p) == p = "p1"

----------------------------------------------------------------------------
(* controllers/client_controller.py *)

ClientIds == 1..Len(clients)

\* the unique constraint on clients.email, raised as IntegrityError at commit
ClientEmailTaken(email, except) ==
    \E i \in ClientIds : i # except /\ clients[i].email = email

create_client(a, full_name, email, phone, company_name) ==
    /\ IF ~check_permission(a, "create_client")
       THEN /\ last' = Outcome("create_client", a, NULL, RetDenied, {})
            /\ UNCHANGED clients
       ELSE IF full_name = "" \/ email = "" \/ phone = ""
                 \/ ~is_valid_email(email) \/ ~is_valid_phone(phone)
                 \/ ClientEmailTaken(email, NULL)
       THEN /\ last' = Outcome("create_client", a, NULL, RetNone, {})
            /\ UNCHANGED clients
       ELSE /\ Len(clients) < MaxClients
            /\ clients' = Append(clients,
                    [full_name |-> full_name, email |-> email, phone |-> phone,
                     company_name |-> company_name, sales_contact_id |-> a])
            /\ last' = Outcome("create_client", a, Len(clients) + 1, RetEntity, {})
    /\ UNCHANGED <<employees, contracts, events, authVars>>

\* the owner filter list_clients applies for the actor's department
ClientScope(a, filter_by_sales_id, c) ==
    IF department(a) = "Commercial"
    THEN filter_by_sales_id # NULL => c.sales_contact_id = filter_by_sales_id
    ELSE IF department(a) \in {"Gestion", "Support"} /\ filter_by_sales_id # NULL
    THEN c.sales_contact_id = filter_by_sales_id
    ELSE TRUE

list_clients(a, filter_by_sales_id) ==
    /\ IF ~check_permission(a, "view_clients")
       THEN last' = Outcome("list_clients", a, filter_by_sales_id, RetDenied, {})
       ELSE last' = Outcome("list_clients", a, filter_by_sales_id, RetList,
                        {i \in ClientIds : ClientScope(a, filter_by_sales_id, clients[i])})
    /\ UNCHANGED <<employees, clients, contracts, events, authVars>>

\* the secondary check of update_client: a Commercial may only touch own clients
ClientNotOwned(a, c) ==
    department(a) = "Commercial" /\ c.sales_contact_id # a

ClientKwargs ==
    {k \in {k1 @@ k2 @@ k3 @@ k4 @@ k5 :
                k1 \in Opt("full_name", Names \cup {""}),
                k2 \in Opt("email", Emails),
                k3 \in Opt("phone", Phones),
                k4 \in Opt("company_name", Companies),
                k5 \in Opt("sales_contact_id", SalesIdInputs)} :
        Cardinality(DOMAIN k) <= MaxFields}

\* a keyword is applied only when present and truthy
Given(kw, key) == Has(kw, key) /\ kw[key] # ""

GivenId(kw, key) == Has(kw, key) /\ kw[key] # NULL

\* the requests that reach the sales_contact_id block
SalesContactRequests == {kw \in ClientKwargs : GivenId(kw, "sales_contact_id")}

\* the try block without the department test of the sales_contact_id block
SalesContactByAnyDepartment(a, id, kw) ==
    \/ Given(kw, "email") /\ ~is_valid_email(kw["email"])
    \/ Given(kw, "phone") /\ ~is_valid_phone(kw["phone"])
    \/ GivenId(kw, "sales_contact_id")
         /\ ~(kw["sales_contact_id"] \in DOMAIN employees
                /\ employees[kw["sales_contact_id"]] = "Commercial")
    \/ Given(kw, "email") /\ ClientEmailTaken(kw["email"], id)

\* the try block of update_client raises
UpdateClientRaises(a, id, kw) ==
    \/ Given(kw, "email") /\ ~is_valid_email(kw["email"])
    \/ Given(kw, "phone") /\ ~is_valid_phone(kw["phone"])
    \/ GivenId(kw, "sales_contact_id")
         /\ \/ department(a) # "Gestion"
            \/ ~(kw["sales_contact_id"] \in DOMAIN employees
                   /\ employees[kw["sales_contact_id"]] = "Commercial")
    \/ Given(kw, "email") /\ ClientEmailTaken(kw["email"], id)

UpdatedClient(c, kw) ==
    [full_name |-> IF Given(kw, "full_name") THEN kw["full_name"] ELSE c.full_name,
     email |-> IF Given(kw, "email") THEN kw["email"] ELSE c.email,
     phone |-> IF Given(kw, "phone") THEN kw["phone"] ELSE c.phone,
     company_name |-> IF Given(kw, "company_name")
                      THEN kw["company_name"] ELSE c.company_name,
     sales_contact_id |-> IF GivenId(kw, "sales_contact_id")
                          THEN kw["sales_contact_id"] ELSE c.sales_contact_id]

\* a reassignment of the client's sales contact carried over to the
\* client's contracts
CascadeToContracts(id, kw) ==
    [i \in DOMAIN contracts |->
        IF contracts[i].client_id = id /\ GivenId(kw, "sales_contact_id")
        THEN [contracts[i] EXCEPT !.sales_contact_id = kw["sales_contact_id"]]
        ELSE contracts[i]]

\* the contracts after update_client: the try block sets attributes of the
\* client only, and commit writes that row alone
ContractsAfterClientUpdate(id, kw) == contracts

update_client(a, id, kw) ==
    /\ IF id \notin ClientIds
       THEN /\ last' = Outcome("update_client", a, id, RetNone, {})
            /\ UNCHANGED <<clients, contracts>>
       ELSE IF ~check_permission(a, "update_client")
       THEN /\ last' = Outcome("update_client", a, id, RetDenied, {})
            /\ UNCHANGED <<clients, contracts>>
       ELSE IF ClientNotOwned(a, clients[id]) \/ UpdateClientRaises(a, id, kw)
       THEN /\ last' = Outcome("update_client", a, id, RetNone, {})
            /\ UNCHANGED <<clients, contracts>>
       ELSE /\ clients' = [clients EXCEPT ![id] = UpdatedClient(clients[id], kw)]
            /\ contracts' = ContractsAfterClientUpdate(id, kw)
            /\ last' = Outcome("update_client", a, id, RetEntity, {})
    /\ UNCHANGED <<employees, events, authVars>>

----------------------------------------------------------------------------
(* controllers/contract_controller.py *)

ContractIds == 1..Len(contracts)

\* the amount check of create_contract
CreateAmountsInvalid(total_amount, remaining_amount) ==
    total_amount <= 0 \/ remaining_amount < 0 \/ remaining_amount > total_amount

\* the creator as the sales contact of the new contract
CreatorAsSalesContact(a, client_id) == a

\* the sales contact of the new contract is inherited from the client
InheritedSalesContact(a, client_id) == clients[client_id].sales_contact_id

create_contract(a, client_id, total_amount, remaining_amount) ==
    /\ IF ~check_permission(a, "create_contract")
       THEN /\ last' = Outcome("create_contract", a, client_id, RetDenied, {})
            /\ UNCHANGED contracts
       ELSE IF CreateAmountsInvalid(total_amount, remaining_amount)
                 \/ client_id \notin ClientIds
       THEN /\ last' = Outcome("create_contract", a, client_id, RetNone, {})
            /\ UNCHANGED contracts
       ELSE /\ Len(contracts) < MaxContracts
            /\ contracts' = Append(contracts,
                    [client_id |-> client_id,
                     sales_contact_id |-> InheritedSalesContact(a, client_id),
                     total_amount |-> total_amount,
                     remaining_amount |-> remaining_amount,
                     status_signed |-> (remaining_amount = total_amount)])
            /\ last' = Outcome("create_contract", a, Len(contracts) + 1, RetEntity, {})
    /\ UNCHANGED <<employees, clients, events, authVars>>

\* filter_signed is None, True or False
SignedFilters == {"None", "True", "False"}

\* the department restriction of list_contracts
ContractScope(a, c) ==
    department(a) = "Commercial" => c.sales_contact_id = a

\* the filters the caller chooses, applied on top of the department restriction
ContractFilters(c, filter_by_sales_id, filter_signed, filter_unpaid, filter_unsigned) ==
    /\ filter_by_sales_id # NULL => c.sales_contact_id = filter_by_sales_id
    /\ filter_signed # "None" => c.status_signed = (filter_signed = "True")
    /\ filter_unsigned => ~c.status_signed
    /\ filter_unpaid => c.remaining_amount > 0

list_contracts(a, filter_by_sales_id, filter_signed, filter_unpaid, filter_unsigned) ==
    /\ IF ~check_permission(a, "view_contracts")
       THEN last' = Outcome("list_contracts", a, filter_by_sales_id, RetList, {})
       ELSE last' = Outcome("list_contracts", a, filter_by_sales_id, RetList,
                        {i \in ContractIds :
                            /\ ContractScope(a, contracts[i])
                            /\ ContractFilters(contracts[i], filter_by_sales_id,
                                   filter_signed, filter_unpaid, filter_unsigned)})
    /\ UNCHANGED <<employees, clients, contracts, events, authVars>>

\* update_contract without its secondary check
NoOwnershipCheck(a, c) == FALSE

\* the secondary check of update_contract
ContractNotOwned(a, c) ==
    department(a) = "Commercial" /\ c.sales_contact_id # a

ContractKwargs ==
    {k \in {k1 @@ k2 @@ k3 @@ k4 :
                k1 \in Opt("remaining_amount", Amounts),
                k2 \in Opt("total_amount", Amounts),
                k3 \in Opt("sales_contact_id", SalesIdInputs),
                k4 \in Opt("status_signed", BOOLEAN)} :
        Cardinality(DOMAIN k) <= MaxFields}

\* the validation of a new remaining_amount against the stored total
RemainingInvalid(new_remaining, c) ==
    new_remaining < 0 \/ new_remaining > c.total_amount

\* the contract after the remaining_amount block
AfterRemaining(c, kw) ==
    IF Has(kw, "remaining_amount")
    THEN [c EXCEPT !.remaining_amount = kw["remaining_amount"],
                   !.status_signed = (kw["remaining_amount"] = 0)]
    ELSE c

\* the validation of a new total_amount without the comparison with the
\* remaining amount
TotalNotPositive(new_total, c) == new_total <= 0

\* the validation of a new total_amount against the remaining amount the
\* same request may already have set
TotalInvalid(new_total, c) ==
    new_total <= 0 \/ new_total < c.remaining_amount

AfterTotal(c, kw) ==
    IF Has(kw, "total_amount")
    THEN [c EXCEPT !.total_amount = kw["total_amount"]]
    ELSE c

AfterSalesContact(c, kw) ==
    IF Has(kw, "sales_contact_id")
    THEN [c EXCEPT !.sales_contact_id = kw["sales_contact_id"]]
    ELSE c

\* the try block without the department test of the total_amount block
TotalByAnyDepartment(a, c, kw) ==
    \/ Has(kw, "remaining_amount") /\ RemainingInvalid(kw["remaining_amount"], c)
    \/ Has(kw, "total_amount")
         /\ TotalInvalid(kw["total_amount"], AfterRemaining(c, kw))
    \/ Has(kw, "sales_contact_id")
         /\ \/ department(a) # "Gestion"
            \/ kw["sales_contact_id"] \notin DOMAIN employees
            \/ employees[kw["sales_contact_id"]] # "Commercial"

\* the try block of update_contract raises
UpdateContractRaises(a, c, kw) ==
    \/ Has(kw, "remaining_amount") /\ RemainingInvalid(kw["remaining_amount"], c)
    \/ Has(kw, "total_amount")
         /\ \/ department(a) # "Gestion"
            \/ TotalInvalid(kw["total_amount"], AfterRemaining(c, kw))
    \/ Has(kw, "sales_contact_id")
         /\ \/ department(a) # "Gestion"
            \/ kw["sales_contact_id"] \notin DOMAIN employees
            \/ employees[kw["sales_contact_id"]] # "Commercial"

UpdatedContract(c, kw) == AfterSalesContact(AfterTotal(AfterRemaining(c, kw), kw), kw)

update_contract(a, id, kw) ==
    /\ IF ~check_permission(a, "update_contract")
       THEN /\ last' = Outcome("update_contract", a, id, RetDenied, {})
            /\ UNCHANGED contracts
       ELSE IF id \notin ContractIds
       THEN /\ last' = Outcome("update_contract", a, id, RetNone, {})
            /\ UNCHANGED contracts
       ELSE IF ContractNotOwned(a, contracts[id])
                 \/ UpdateContractRaises(a, contracts[id], kw)
       THEN /\ last' = Outcome("update_contract", a, id, RetNone, {})
            /\ UNCHANGED contracts
       ELSE /\ contracts' = [contracts EXCEPT ![id] = UpdatedContract(contracts[id], kw)]
            /\ last' = Outcome("update_contract", a, id, RetEntity, {})
    /\ UNCHANGED <<employees, clients, events, authVars>>

\* update_contract in a session of its own (main.get_session): the call
\* loads the row and validates the request against what it loaded; commit
\* flushes an UPDATE of the columns the call has changed and nothing else
SessionIds == 1..MaxSessions

Idle == [pc |-> "idle"]

NoSessions == [s \in SessionIds |-> Idle]

\* lines 125-186: permission, load, ownership, the field blocks
load_and_validate_contract(s, a, id, kw) ==
    /\ sessions[s] = Idle
    /\ IF ~check_permission(a, "update_contract")
       THEN /\ last' = Outcome("update_contract", a, id, RetDenied, {})
            /\ UNCHANGED sessions
       ELSE IF id \notin ContractIds
       THEN /\ last' = Outcome("update_contract", a, id, RetNone, {})
            /\ UNCHANGED sessions
       ELSE IF ContractNotOwned(a, contracts[id])
                 \/ UpdateContractRaises(a, contracts[id], kw)
       THEN /\ last' = Outcome("update_contract", a, id, RetNone, {})
            /\ UNCHANGED sessions
       ELSE /\ sessions' = [sessions EXCEPT ![s] =
                    [pc |-> "loaded", actor |-> a, id |-> id,
                     loaded |-> contracts[id],
                     pending |-> UpdatedContract(contracts[id], kw)]]
            /\ UNCHANGED last
    /\ UNCHANGED <<employees, clients, contracts, events, tokens, now, menu>>

\* the row after the UPDATE the flush emits: the columns whose value the
\* session has changed since it loaded the row, over the row as stored now
Flushed(row, loaded, pending) ==
    [f \in DOMAIN row |-> IF pending[f] # loaded[f] THEN pending[f] ELSE row[f]]

\* lines 187-189: session.commit()
commit_contract(s) ==
    /\ sessions[s] # Idle
    /\ contracts' = [contracts EXCEPT ![sessions[s].id] =
            Flushed(contracts[sessions[s].id], sessions[s].loaded, sessions[s].pending)]
    /\ sessions' = [sessions EXCEPT ![s] = Idle]
    /\ last' = Outcome("update_contract", sessions[s].actor, sessions[s].id, RetEntity, {})
    /\ UNCHANGED <<employees, clients, events, tokens, now, menu>>

----------------------------------------------------------------------------
(* controllers/event_controller.py *)

EventIds == 1..Len(events)

Times == 1..MaxTime
Attendees == {0 - 1, 1}

create_event(a, contract_id, name, attendees, start_date, end_date, location, notes) ==
    /\ IF ~check_permission(a, "create_event")
       THEN /\ last' = Outcome("create_event", a, contract_id, RetDenied, {})
            /\ UNCHANGED events
       ELSE IF \/ contract_id \notin ContractIds
               \/ ~contracts[contract_id].status_signed
               \/ contracts[contract_id].sales_contact_id # a
               \/ start_date >= end_date
       THEN /\ last' = Outcome("create_event", a, contract_id, RetNone, {})
            /\ UNCHANGED events
       ELSE /\ Len(events) < MaxEvents
            /\ events' = Append(events,
                    [contract_id |-> contract_id,
                     support_contact_id |-> NULL,
                     name |-> name,
                     attendees |-> attendees,
                     event_start |-> start_date,
                     event_end |-> end_date,
                     location |-> location,
                     notes |-> notes])
            /\ last' = Outcome("create_event", a, Len(events) + 1, RetEntity, {})
    /\ UNCHANGED <<employees, clients, contracts, authVars>>

\* support_filter_scope is None or any string
SupportScopes == {"None", "default", "mine", "unassigned", "all_db", "other"}

EventScope(a, e, filter_by_support_id, support_filter_scope) ==
    IF department(a) = "Commercial"
    THEN contracts[e.contract_id].sales_contact_id = a
    ELSE IF department(a) = "Support"
    THEN IF support_filter_scope = "all_db" THEN TRUE
         ELSE IF support_filter_scope = "mine" THEN e.support_contact_id = a
         ELSE IF support_filter_scope = "unassigned" THEN e.support_contact_id = NULL
         ELSE IF support_filter_scope \in {"default", "None"}
         THEN e.support_contact_id = a \/ e.support_contact_id = NULL
         ELSE TRUE
    ELSE filter_by_support_id # NULL => e.support_contact_id = filter_by_support_id

list_events(a, filter_by_support_id, support_filter_scope) ==
    /\ IF ~check_permission(a, "view_events")
       THEN last' = Outcome("list_events", a, filter_by_support_id, RetDenied, {})
       ELSE last' = Outcome("list_events", a, filter_by_support_id, RetList,
                        {i \in EventIds :
                            EventScope(a, events[i], filter_by_support_id,
                                       support_filter_scope)})
    /\ UNCHANGED <<employees, clients, contracts, events, authVars>>

EventKwargs ==
    {k \in {k1 @@ k2 @@ k3 @@ k4 @@ k5 @@ k6 @@ k7 @@ k8 :
                k1 \in Opt("contract_id", ContractIdInputs),
                k2 \in Opt("support_contact_id", SupportIdInputs),
                k3 \in Opt("name", Names),
                k4 \in Opt("attendees", Attendees),
                k5 \in Opt("event_start", Times \cup {NULL}),
                k6 \in Opt("event_end", Times \cup {NULL}),
                k7 \in Opt("location", Places),
                k8 \in Opt("notes", Notes)} :
        Cardinality(DOMAIN k) <= MaxFields}

\* the second of the department checks alone
SupportEditForbidden(a, e) ==
    department(a) = "Support" /\ e.support_contact_id # a

\* the first of the department checks alone
CommercialEditForbidden(a, e) == department(a) = "Commercial"

\* update_event without its department checks
NoEditCheck(a, e) == FALSE

\* the department checks that open update_event: Commercial never, Support
\* only on the events assigned to the actor
EventEditForbidden(a, e) ==
    \/ department(a) = "Commercial"
    \/ department(a) = "Support" /\ e.support_contact_id # a

\* the contract_id block without the test of status_signed
ContractReassignUnsignedAllowed(a, kw) ==
    /\ Has(kw, "contract_id")
    /\ \/ department(a) # "Gestion"
       \/ kw["contract_id"] \notin ContractIds

\* the contract_id block raises
ContractReassignRaises(a, kw) ==
    /\ Has(kw, "contract_id")
    /\ \/ department(a) # "Gestion"
       \/ kw["contract_id"] \notin ContractIds
       \/ ~contracts[kw["contract_id"]].status_signed

\* who may put which value in support_contact_id
SupportAssignForbidden(a, new_support_id) ==
    IF department(a) = "Support"
    THEN new_support_id # NULL /\ new_support_id # a
    ELSE department(a) # "Gestion"

\* Employee.department is a Python property of the mapped class, not a column:
\* the class attribute is the property object, which has no in_(), so building
\* the filter of the support-contact query raises AttributeError
SupportContactQueryRaises == TRUE

\* the lookup of the new support contact fails
SupportContactInvalid(new_support_id) ==
    \/ SupportContactQueryRaises
    \/ new_support_id \notin DOMAIN employees
    \/ employees[new_support_id] \notin {"Support", "Gestion"}

\* the support_contact_id block raises
SupportReassignRaises(a, kw) ==
    /\ Has(kw, "support_contact_id")
    /\ \/ SupportAssignForbidden(a, kw["support_contact_id"])
       \/ kw["support_contact_id"] # NULL
            /\ SupportContactInvalid(kw["support_contact_id"])

\* the event after every keyword is applied
UpdatedEvent(e, kw) ==
    [f \in DOMAIN e |-> IF Has(kw, f) THEN kw[f] ELSE e[f]]

\* the final date check
DatesInvalid(e) ==
    e.event_start # NULL /\ e.event_end # NULL /\ e.event_start >= e.event_end

\* events.name, event_start and event_end are NOT NULL: commit raises IntegrityError
EventCommitRaises(e) ==
    e.event_start = NULL \/ e.event_end = NULL

UpdateEventRaises(a, e, kw) ==
    \/ EventEditForbidden(a, e)
    \/ ContractReassignRaises(a, kw)
    \/ SupportReassignRaises(a, kw)
    \/ kw # EmptyKw /\ DatesInvalid(UpdatedEvent(e, kw))
    \/ kw # EmptyKw /\ EventCommitRaises(UpdatedEvent(e, kw))

\* the except block without session.rollback(): the attributes set before
\* the raise stay on the event
WithoutRollback(e, kw) == UpdatedEvent(e, kw)

\* session.rollback() in the except block discards every attribute the try
\* block has set on the event
Rollback(e, kw) == e

update_event(a, id, kw) ==
    /\ IF id \notin EventIds
       THEN /\ last' = Outcome("update_event", a, id, RetNone, {})
            /\ UNCHANGED events
       ELSE IF UpdateEventRaises(a, events[id], kw)
       THEN /\ last' = Outcome("update_event", a, id, RetNone, {})
            /\ events' = [events EXCEPT ![id] = Rollback(events[id], kw)]
       ELSE /\ events' = [events EXCEPT ![id] = UpdatedEvent(events[id], kw)]
            /\ last' = Outcome("update_event", a, id, RetEntity, {})
    /\ UNCHANGED <<employees, clients, contracts, authVars>>

\* tests/test_event_controller.py sets an event's support contact straight
\* through the session, outside any controller
assign_support_in_session(id, support_id) ==
    /\ id \in EventIds
    /\ support_id \in DOMAIN employees
    /\ employees[support_id] = "Support"
    /\ events' = [events EXCEPT ![id].support_contact_id = support_id]
    /\ last' = Outcome("session_commit", support_id, id, RetEntity, {})
    /\ UNCHANGED <<employees, clients, contracts, authVars>>

----------------------------------------------------------------------------
(* main.py and views/sales_menu.py *)

\* GLOBAL_JWT_TOKEN is None: nobody is logged in, no menu is open
NoMenu == [emp |-> NULL, token |-> NULL, loaded |-> "none"]

\* main() resolves GLOBAL_JWT_TOKEN in a new session and main_menu_router
\* reads employee.department: a Commercial employee enters sales_menu, which
\* keeps that session and that employee object until logout
open_sales_menu(tok) ==
    /\ menu = NoMenu
    /\ TokenEmployee(tok) # NULL
    /\ department(tok.sub) = "Commercial"
    /\ menu' = [emp |-> tok.sub, token |-> tok, loaded |-> department(tok.sub)]
    /\ last' = Outcome("open_sales_menu", tok.sub, NULL, RetEntity, {})
    /\ UNCHANGED <<employees, clients, contracts, events, tokens, now, sessions>>

\* the department the menu's employee object yields: the one its session
\* loaded, read again from the table only after a commit or rollback of
\* that session has expired the object
SessionDepartment ==
    IF menu.loaded = "expired" THEN department(menu.emp) ELSE menu.loaded

\* the menu's token check fails: back to the login screen
SalesMenuLogout ==
    /\ menu' = NoMenu
    /\ last' = Outcome("sales_menu", menu.emp, NULL, "logout", {})
    /\ UNCHANGED <<employees, clients, contracts, events, tokens, now, sessions>>

\* choice 1: create_client_cli(session, employee)
sales_menu_create_client(full_name, email, phone, company_name) ==
    /\ menu # NoMenu
    /\ IF TokenEmployee(menu.token) = NULL
       THEN SalesMenuLogout
       ELSE /\ IF ~Permits(SessionDepartment, "create_client")
               THEN /\ last' = Outcome("menu_create_client", menu.emp, NULL, RetDenied, {})
                    /\ menu' = [menu EXCEPT !.loaded = SessionDepartment]
                    /\ UNCHANGED clients
               ELSE IF ClientEmailTaken(email, NULL)
               THEN /\ last' = Outcome("menu_create_client", menu.emp, NULL, RetNone, {})
                    /\ menu' = [menu EXCEPT !.loaded = "expired"]
                    /\ UNCHANGED clients
               ELSE /\ Len(clients) < MaxClients
                    /\ clients' = Append(clients,
                            [full_name |-> full_name, email |-> email, phone |-> phone,
                             company_name |-> company_name, sales_contact_id |-> menu.emp])
                    /\ last' = Outcome("menu_create_client", menu.emp,
                                    Len(clients) + 1, RetEntity, {})
                    /\ menu' = [menu EXCEPT !.loaded = "expired"]
            /\ UNCHANGED <<employees, contracts, events, tokens, now, sessions>>

\* choice 2: list_clients_cli(session, employee), which commits nothing
sales_menu_list_clients(filter_by_sales_id) ==
    /\ menu # NoMenu
    /\ IF TokenEmployee(menu.token) = NULL
       THEN SalesMenuLogout
       ELSE /\ IF ~Permits(SessionDepartment, "view_clients")
               THEN last' = Outcome("menu_list_clients", menu.emp,
                                filter_by_sales_id, RetDenied, {})
               ELSE last' = Outcome("menu_list_clients", menu.emp,
                                filter_by_sales_id, RetList,
                                {i \in ClientIds :
                                    filter_by_sales_id # NULL
                                        => clients[i].sales_contact_id = filter_by_sales_id})
            /\ menu' = [menu EXCEPT !.loaded = SessionDepartment]
            /\ UNCHANGED <<employees, clients, contracts, events, tokens, now, sessions>>

----------------------------------------------------------------------------
(* Specifications *)

Staff ==
    (1 :> "Gestion") @@ (2 :> "Commercial") @@ (3 :> "Commercial")
        @@ (4 :> "Support") @@ (5 :> "Support")

\* who calls the client and contract controllers: the Gestion employee, the
\* two Commercial employees and a Support employee
ClientActors == {1, 2, 3, 4}

\* who calls the event controller: the Gestion employee, a Commercial employee
\* and the two Support employees
EventActors == {1, 2, 4, 5}

NoCall == Outcome("none", NULL, NULL, RetNone, {})

\* the empty database with the staff in place
Init ==
    /\ employees = Staff
    /\ clients = <<>>
    /\ contracts = <<>>
    /\ events = <<>>
    /\ last = NoCall
    /\ tokens = {}
    /\ sessions = NoSessions
    /\ now = 0
    /\ menu = NoMenu

\* A call that fails its permission check, or finds no row under the id, ends
\* before it reads its other arguments: it is the same step whatever they
\* are, and is taken once.

\* create_client's arguments: well-formed ones, and one field empty or malformed
ClientInputs ==
    {<<n, e, "p1", "c1">> : n \in Names, e \in {"e1", "e2"}}
        \cup {<<"", "e1", "p1", "c1">>}
        \cup {<<"n1", e, "p1", "c1">> : e \in {"", "bad"}}
        \cup {<<"n1", "e1", ph, "c1">> : ph \in {"", "bad"}}

CreateClient ==
    \E a \in ClientActors :
        \E i \in (IF check_permission(a, "create_client")
                  THEN ClientInputs ELSE {<<"n1", "e1", "p1", "c1">>}) :
            create_client(a, i[1], i[2], i[3], i[4])

ListClients ==
    \E a \in ClientActors, f \in SalesIdInputs : list_clients(a, f)

UpdateClient ==
    \E a \in ClientActors, id \in ClientIds \cup {MissingId} :
        \E kw \in (IF id \in ClientIds /\ check_permission(a, "update_client")
                   THEN ClientKwargs ELSE {EmptyKw}) :
            update_client(a, id, kw)

CreateContract ==
    \E a \in ClientActors, client_id \in ClientIds \cup {MissingId} :
        \E m \in (IF check_permission(a, "create_contract")
                  THEN Amounts \X Amounts ELSE {<<1, 1>>}) :
            create_contract(a, client_id, m[1], m[2])

ListContracts ==
    \E a \in ClientActors, f \in SalesIdInputs,
       filter_signed \in SignedFilters, filter_unpaid \in BOOLEAN,
       filter_unsigned \in BOOLEAN :
        list_contracts(a, f, filter_signed, filter_unpaid, filter_unsigned)

UpdateContract ==
    \E a \in ClientActors, id \in ContractIds \cup {MissingId} :
        \E kw \in (IF id \in ContractIds /\ check_permission(a, "update_contract")
                   THEN ContractKwargs ELSE {EmptyKw}) :
            update_contract(a, id, kw)

EventInputs == Names \X Attendees \X Times \X Times \X Places \X Notes

CreateEvent ==
    \E a \in EventActors, contract_id \in ContractIdInputs :
        \E i \in (IF check_permission(a, "create_event")
                  THEN EventInputs ELSE {<<"n1", 1, 1, 2, "l1", "t1">>}) :
            create_event(a, contract_id, i[1], i[2], i[3], i[4], i[5], i[6])

ListEvents ==
    \E a \in EventActors, f \in SupportIdInputs, scope \in SupportScopes :
        list_events(a, f, scope)

UpdateEvent ==
    \E a \in EventActors, id \in EventIds \cup {MissingId} :
        \E kw \in (IF id \in EventIds THEN EventKwargs ELSE {EmptyKw}) :
            update_event(a, id, kw)

AssignSupportInSession ==
    \E id \in EventIds, s \in EventActors : assign_support_in_session(id, s)

\* tokens whose signature does not verify: anyone can write such a payload
ForgedTokens ==
    {[sub |-> 2, department |-> "Gestion",
      exp |-> MaxClock + ACCESS_TOKEN_EXPIRE_MINUTES, signed |-> FALSE]}

\* the employee who logs in and whose role Gestion changes
AuthActors == {2}

CreateAccessToken ==
    \E e \in AuthActors : create_access_token(e)

GetEmployeeFromToken ==
    \E tok \in tokens \cup ForgedTokens : get_employee_from_token(tok)

UpdateEmployee ==
    \E m \in {1, 4}, e \in AuthActors, r \in Roles : update_employee(m, e, r)

\* tokens issued, resolved and outlived while Gestion changes roles
NextAuth ==
    \/ CreateAccessToken
    \/ GetEmployeeFromToken
    \/ Tick
    \/ UpdateEmployee

SpecAuth == Init /\ [][NextAuth]_vars

OpenSalesMenu ==
    \E tok \in tokens : open_sales_menu(tok)

SalesMenuCreateClient ==
    \E e \in {"e1", "e2"} : sales_menu_create_client("n1", e, "p1", "c1")

SalesMenuListClients ==
    \E f \in {NULL, 2} : sales_menu_list_clients(f)

\* a sales menu stays open while Gestion changes its employee's role
NextMenu ==
    \/ CreateAccessToken
    \/ OpenSalesMenu
    \/ SalesMenuCreateClient
    \/ SalesMenuListClients
    \/ Tick
    \/ UpdateEmployee

SpecMenu == Init /\ [][NextMenu]_vars

\* the listings of clients and contracts, over what create_client and
\* create_contract store from the empty database
NextLists ==
    \/ CreateClient
    \/ CreateContract
    \/ ListClients
    \/ ListContracts

SpecLists == Init /\ [][NextLists]_vars

\* the calls that write clients and contracts, from the empty database
Next ==
    \/ CreateClient
    \/ UpdateClient
    \/ CreateContract
    \/ UpdateContract

Spec == Init /\ [][Next]_vars

\* a database the client and contract controllers have filled: a client of the
\* Gestion employee 1 with a signed and an unsigned contract, and a client of
\* the Commercial employee 2 with a signed contract
SeededClients ==
    << [full_name |-> "n1", email |-> "e1", phone |-> "p1", company_name |-> "c1",
        sales_contact_id |-> 1],
       [full_name |-> "n2", email |-> "e2", phone |-> "p1", company_name |-> "c1",
        sales_contact_id |-> 2] >>

SeededContracts ==
    << [client_id |-> 1, sales_contact_id |-> 1, total_amount |-> 1,
        remaining_amount |-> 1, status_signed |-> TRUE],
       [client_id |-> 2, sales_contact_id |-> 2, total_amount |-> 1,
        remaining_amount |-> 1, status_signed |-> TRUE],
       [client_id |-> 1, sales_contact_id |-> 1, total_amount |-> 2,
        remaining_amount |-> 1, status_signed |-> FALSE] >>

InitEvents ==
    /\ employees = Staff
    /\ clients = SeededClients
    /\ contracts = SeededContracts
    /\ events = <<>>
    /\ last = NoCall
    /\ tokens = {}
    /\ sessions = NoSessions
    /\ now = 0
    /\ menu = NoMenu

\* the event controller over the filled database
NextEvents ==
    \/ CreateEvent
    \/ ListEvents
    \/ UpdateEvent
    \/ AssignSupportInSession

SpecEvents == InitEvents /\ [][NextEvents]_vars

\* deletions over every staff of MaxEmployees employees
InitEmployees ==
    /\ employees \in [1..MaxEmployees -> Roles]
    /\ clients = <<>>
    /\ contracts = <<>>
    /\ events = <<>>
    /\ last = NoCall
    /\ tokens = {}
    /\ sessions = NoSessions
    /\ now = 0
    /\ menu = NoMenu

DeleteEmployee ==
    \E e \in (1..MaxEmployees) \cup {MissingId} : delete_employee(e)

SpecEmployees == InitEmployees /\ [][DeleteEmployee]_vars

\* a sales menu stays open while the clock runs and employees are deleted
NextSession ==
    \/ CreateAccessToken
    \/ GetEmployeeFromToken
    \/ OpenSalesMenu
    \/ SalesMenuCreateClient
    \/ SalesMenuListClients
    \/ Tick
    \/ DeleteEmployee

SpecSession == Init /\ [][NextSession]_vars

\* update_contract calls on one contract from MaxSessions sessions at once,
\* each request one amount
AmountRequests ==
    {"remaining_amount" :> v : v \in Amounts} \cup {"total_amount" :> v : v \in Amounts}

InitConcurrent ==
    /\ employees = Staff
    /\ clients = SeededClients
    /\ contracts = <<SeededContracts[3]>>
    /\ events = <<>>
    /\ last = NoCall
    /\ tokens = {}
    /\ now = 0
    /\ menu = NoMenu
    /\ sessions = NoSessions

LoadAndValidateContract ==
    \E s \in SessionIds, a \in ClientActors, id \in ContractIds, kw \in AmountRequests :
        load_and_validate_contract(s, a, id, kw)

CommitContract ==
    \E s \in SessionIds : commit_contract(s)

NextConcurrent ==
    \/ LoadAndValidateContract
    \/ CommitContract

SpecConcurrent == InitConcurrent /\ [][NextConcurrent]_vars

\* requests that name a new owner and nothing else
SalesOwnerRequests == {"sales_contact_id" :> v : v \in SalesIdInputs}
SupportOwnerRequests == {"support_contact_id" :> v : v \in SupportIdInputs}

\* a client of the Gestion employee 1 with a signed contract, and no event yet
InitOwnership ==
    /\ employees = Staff
    /\ clients = <<SeededClients[1]>>
    /\ contracts = <<SeededContracts[1]>>
    /\ events = <<>>
    /\ last = NoCall
    /\ tokens = {}
    /\ sessions = NoSessions
    /\ now = 0
    /\ menu = NoMenu

ReassignClient ==
    \E a \in ClientActors, id \in ClientIds, kw \in SalesOwnerRequests :
        update_client(a, id, kw)

ReassignContract ==
    \E a \in ClientActors, id \in ContractIds, kw \in SalesOwnerRequests :
        update_contract(a, id, kw)

ReassignSupport ==
    \E a \in EventActors, id \in EventIds, kw \in SupportOwnerRequests :
        update_event(a, id, kw)

\* the three reassignments, over events created and assigned meanwhile
NextOwnership ==
    \/ ReassignClient
    \/ ReassignContract
    \/ ReassignSupport
    \/ CreateEvent
    \/ AssignSupportInSession

SpecOwnership == InitOwnership /\ [][NextOwnership]_vars

\* the client of the Gestion employee 1 in place and no contract yet
InitLifecycle ==
    /\ employees = Staff
    /\ clients = <<SeededClients[1]>>
    /\ contracts = <<>>
    /\ events = <<>>
    /\ last = NoCall
    /\ tokens = {}
    /\ sessions = NoSessions
    /\ now = 0
    /\ menu = NoMenu

\* the life of a contract and its events: the contract and event controllers'
\* creations and updates
NextLifecycle ==
    \/ CreateContract
    \/ UpdateContract
    \/ CreateEvent
    \/ UpdateEvent

SpecLifecycle == InitLifecycle /\ [][NextLifecycle]_vars

\* the client operations alone, from the empty database
NextClients ==
    \/ CreateClient
    \/ UpdateClient

SpecClients == Init /\ [][NextClients]_vars

\* the calls of employees whose role lacks the permission, with every target
\* and every argument
DeniedCreateClient ==
    \E a \in ClientActors, i \in ClientInputs :
        /\ ~check_permission(a, "create_client")
        /\ create_client(a, i[1], i[2], i[3], i[4])

DeniedUpdateClient ==
    \E a \in ClientActors, id \in ClientIds \cup {MissingId}, kw \in ClientKwargs :
        /\ ~check_permission(a, "update_client")
        /\ update_client(a, id, kw)

DeniedCreateContract ==
    \E a \in ClientActors, client_id \in ClientIds \cup {MissingId},
       m \in Amounts \X Amounts :
        /\ ~check_permission(a, "create_contract")
        /\ create_contract(a, client_id, m[1], m[2])

DeniedUpdateContract ==
    \E a \in ClientActors, id \in ContractIds \cup {MissingId}, kw \in ContractKwargs :
        /\ ~check_permission(a, "update_contract")
        /\ update_contract(a, id, kw)

DeniedCreateEvent ==
    \E a \in EventActors, contract_id \in ContractIdInputs, i \in EventInputs :
        /\ ~check_permission(a, "create_event")
        /\ create_event(a, contract_id, i[1], i[2], i[3], i[4], i[5], i[6])

DeniedUpdateEvent ==
    \E a \in EventActors, id \in EventIds \cup {MissingId}, kw \in EventKwargs :
        /\ ~check_permission(a, "update_event")
        /\ update_event(a, id, kw)

\* over the filled database, while events are created and assigned
NextDenied ==
    \/ CreateEvent
    \/ AssignSupportInSession
    \/ DeniedCreateClient
    \/ DeniedUpdateClient
    \/ DeniedCreateContract
    \/ DeniedUpdateContract
    \/ DeniedCreateEvent
    \/ DeniedUpdateEvent

SpecDenied == InitEvents /\ [][NextDenied]_vars

\* the update requests the try blocks turn down, over the filled database,
\* while events are created and assigned
RejectedUpdateClient ==
    \E a \in ClientActors, id \in ClientIds, kw \in ClientKwargs :
        /\ UpdateClientRaises(a, id, kw) = TRUE
        /\ update_client(a, id, kw)

RejectedUpdateContract ==
    \E a \in ClientActors, id \in ContractIds, kw \in ContractKwargs :
        /\ UpdateContractRaises(a, contracts[id], kw) = TRUE
        /\ update_contract(a, id, kw)

RejectedUpdateEvent ==
    \E a \in EventActors, id \in EventIds, kw \in EventKwargs :
        /\ UpdateEventRaises(a, events[id], kw) = TRUE
        /\ update_event(a, id, kw)

NextRejected ==
    \/ CreateEvent
    \/ AssignSupportInSession
    \/ RejectedUpdateClient
    \/ RejectedUpdateContract
    \/ RejectedUpdateEvent

SpecRejected == InitEvents /\ [][NextRejected]_vars

\* check_permission over one employee of any role name, known or not, and
\* any action name, listed or not
RoleNames == DOMAIN PERMISSIONS \cup {"Stagiaire", "gestion", "", NoRole}
ActionNames == ListedActions \cup {"delete_client", "view_reports", "Create_Client"}

InitPermissions ==
    /\ employees \in {<<r>> : r \in RoleNames}
    /\ clients = <<>>
    /\ contracts = <<>>
    /\ events = <<>>
    /\ last = NoCall
    /\ tokens = {}
    /\ sessions = NoSessions
    /\ now = 0
    /\ menu = NoMenu

CheckPermission ==
    \E action \in ActionNames :
        /\ last' = Outcome("check_permission", 1, action,
                           check_permission(1, action), {})
        /\ UNCHANGED <<employees, clients, contracts, events, authVars>>

SpecPermissions == InitPermissions /\ [][CheckPermission]_vars

----------------------------------------------------------------------------
(* Properties *)

\* C1: whatever owner filter a Commercial actor passes, list_clients and
\* list_contracts return only rows whose sales_contact_id is the actor's id.
C1_SalesListsOnlyOwnRows ==
    (last.ret = RetList /\ last.actor \in DOMAIN employees
        /\ department(last.actor) = "Commercial")
    => /\ last.op = "list_clients"
            => \A i \in last.rows : clients[i].sales_contact_id = last.actor
       /\ last.op = "list_contracts"
            => \A i \in last.rows : contracts[i].sales_contact_id = last.actor

\* C2: update_client and update_contract by a Commercial actor on a row whose
\* sales_contact_id is another employee's id return no entity and leave the
\* table as it was, whatever the change set.
C2_SalesCannotUpdateForeignRows ==
    [][/\ (last'.op = "update_client" /\ last'.target \in ClientIds
            /\ department(last'.actor) = "Commercial"
            /\ clients[last'.target].sales_contact_id # last'.actor)
          => (clients' = clients /\ last'.ret = RetNone)
       /\ (last'.op = "update_contract" /\ last'.target \in ContractIds
            /\ department(last'.actor) = "Commercial"
            /\ contracts[last'.target].sales_contact_id # last'.actor)
          => (contracts' = contracts /\ last'.ret = RetNone)]_vars

\* a Commercial actor's update_contract on another employee's contract has
\* returned None
C2_ForeignUpdateDenied ==
    /\ last.op = "update_contract"
    /\ last.ret = RetNone
    /\ last.target \in ContractIds
    /\ department(last.actor) = "Commercial"
    /\ contracts[last.target].sales_contact_id # last.actor

\* C3: every stored contract has total_amount > 0 and
\* 0 <= remaining_amount <= total_amount, after any sequence of
\* create_contract and update_contract calls.
C3_AmountsInRange ==
    \A i \in ContractIds :
        /\ contracts[i].total_amount > 0
        /\ 0 <= contracts[i].remaining_amount
        /\ contracts[i].remaining_amount <= contracts[i].total_amount

\* update_contract has stored amounts on a contract, and they differ from
\* what create_contract alone can leave behind with a signed status: the
\* total exceeds the remaining amount while the contract reads signed only
\* when the remaining amount is 0
C3_ContractUpdated ==
    /\ last.op = "update_contract"
    /\ last.ret = RetEntity
    /\ contracts[last.target].total_amount > 1
    /\ contracts[last.target].remaining_amount = contracts[last.target].total_amount
    /\ ~contracts[last.target].status_signed

\* C4: an update_contract by a Commercial actor never leaves a contract with a
\* remaining_amount greater than before the call (only Gestion raises it).
C4_SalesNeverRaisesRemaining ==
    [][(last'.op = "update_contract" /\ last'.target \in ContractIds
            /\ department(last'.actor) = "Commercial")
          => contracts'[last'.target].remaining_amount
                <= contracts[last'.target].remaining_amount]_vars

\* C5: an event gets a contract_id, at creation or by update_event, only when
\* that contract exists and is signed at that moment; a request naming a
\* missing or unsigned contract stores nothing.
C5_AttachedOnlyToSignedContract ==
    [][/\ \A i \in 1..Len(events') :
            (i \notin EventIds \/ events'[i].contract_id # events[i].contract_id)
            => /\ events'[i].contract_id \in ContractIds
               /\ contracts[events'[i].contract_id].status_signed
       /\ \A c \in ContractIdInputs :
            (/\ last'.op = "update_event"
             /\ last'.target \in EventIds
             /\ ~(c \in ContractIds /\ contracts[c].status_signed)
             /\ update_event(last'.actor, last'.target, "contract_id" :> c))
            => (events' = events /\ last'.ret = RetNone)
       /\ (last'.op = "create_event"
            /\ ~(last'.target \in ContractIds /\ contracts[last'.target].status_signed)
            /\ last'.ret # RetEntity)
          => events' = events]_vars

\* update_event has moved the event to the signed contract 2, on which no
\* create_event succeeds
C5_EventMovedToSignedContract ==
    /\ last.op = "update_event"
    /\ last.ret = RetEntity
    /\ events[last.target].contract_id = 2
    /\ contracts[events[last.target].contract_id].status_signed

\* C6: every event create_event stores was requested by a Commercial actor
\* whose id is the parent contract's sales_contact_id.
C6_CreatedByOwningSales ==
    [][(last'.op = "create_event" /\ Len(events') > Len(events))
          => /\ department(last'.actor) = "Commercial"
             /\ contracts[events'[Len(events')].contract_id].sales_contact_id
                    = last'.actor]_vars

\* C7: an update_event call by anyone but a Gestion employee or the Support
\* employee the event is assigned to returns None and leaves the event as it
\* was, whatever fields it names.
C7_OnlyManagementOrAssigneeEdits ==
    [][(last'.op = "update_event" /\ last'.target \in EventIds)
          => \/ department(last'.actor) = "Gestion"
             \/ /\ department(last'.actor) = "Support"
                /\ events[last'.target].support_contact_id = last'.actor
             \/ (events' = events /\ last'.ret = RetNone)]_vars

\* the Support employee an event is assigned to has updated it
C7_AssigneeEdited ==
    /\ last.op = "update_event"
    /\ last.ret = RetEntity
    /\ department(last.actor) = "Support"
    /\ events[last.target].support_contact_id = last.actor

\* C8: a Support employee's update_event with support_contact_id = own id on
\* an event with no support contact returns the event, now assigned to them.
C8_SupportSelfAssigns ==
    [][\A a \in EventActors, id \in EventIds :
          (department(a) = "Support" /\ events[id].support_contact_id = NULL
              /\ update_event(a, id, "support_contact_id" :> a))
          => (last'.ret = RetEntity /\ events'[id].support_contact_id = a)]_vars

\* C9: after an update_event call by an actor who is not Gestion, the event's
\* support_contact_id is what it was, or the actor's id where it was null, or
\* null where it was the actor's id.
C9_SupportContactTransitions ==
    [][(last'.op = "update_event" /\ last'.target \in EventIds
            /\ department(last'.actor) # "Gestion")
          => \/ events'[last'.target].support_contact_id
                    = events[last'.target].support_contact_id
             \/ /\ events'[last'.target].support_contact_id = last'.actor
                /\ events[last'.target].support_contact_id = NULL
             \/ /\ events'[last'.target].support_contact_id = NULL
                /\ events[last'.target].support_contact_id = last'.actor]_vars

\* a Support employee's update_event has left the event without support
\* contact: the assignee has unassigned themselves
C9_SupportUnassignedSelf ==
    /\ last.op = "update_event"
    /\ last.ret = RetEntity
    /\ department(last.actor) = "Support"
    /\ events[last.target].support_contact_id = NULL

\* C10: a Gestion employee's update_event with support_contact_id = x, x not
\* null, returns the event with x as its support contact when x is a Support
\* or Gestion employee, and returns None with the event as it was otherwise.
C10_ManagementAssignsSupport ==
    [][\A a \in EventActors, id \in EventIds, x \in SupportIdInputs \ {NULL} :
          (department(a) = "Gestion"
              /\ update_event(a, id, "support_contact_id" :> x))
          => IF x \in DOMAIN employees /\ employees[x] \in {"Support", "Gestion"}
             THEN last'.ret = RetEntity /\ events'[id].support_contact_id = x
             ELSE last'.ret = RetNone /\ events' = events]_vars

\* C11: a token whose signature and expiry are valid but whose department
\* claim differs from the stored employee's department resolves to no
\* employee.
C11_RoleDriftResolvesToNobody ==
    (last.op = "get_employee_from_token" /\ last.ret = RetEntity)
    => \A tok \in last.rows : tok.department = employees[tok.sub]

\* C12: an operation an employee requests after a role change, also from a
\* menu opened before it, is permitted only if the employee's stored role
\* grants it.
C12_AuthorizedAgainstStoredRole ==
    [][/\ (last'.op = "menu_create_client" /\ last'.ret \in {RetEntity, RetNone})
            => Permits(employees[last'.actor], "create_client")
       /\ (last'.op = "menu_list_clients" /\ last'.ret = RetList)
            => Permits(employees[last'.actor], "view_clients")]_vars

\* C13: a controller call by an employee whose role the permission table
\* does not grant the call's action returns no entity and no list, whatever
\* the target and the arguments, and leaves clients, contracts and events as
\* they were.
C13_UngrantedCallsDenied ==
    [][(last'.op \in DOMAIN ActionOf
            /\ ~check_permission(last'.actor, ActionOf[last'.op]))
          => /\ last'.ret \in {RetDenied, RetNone}
             /\ UNCHANGED <<clients, contracts, events>>]_vars

\* update_event, which never calls check_permission, has turned down a
\* Commercial employee on an existing event
C13_CommercialUpdateEventDenied ==
    /\ last.op = "update_event"
    /\ last.target \in EventIds
    /\ department(last.actor) = "Commercial"
    /\ last.ret = RetNone

\* C14: check_permission answers false for an employee whose role name is
\* not Gestion, Commercial or Support (an employee without a role included),
\* and for an action name the table does not list.
C14_FailsClosed ==
    last.op = "check_permission"
    => ((\/ employees[last.actor] \notin {"Gestion", "Commercial", "Support"}
         \/ last.target \notin ListedActions)
        => last.ret = FALSE)

\* an employee without a role has been refused an action Gestion holds
C14_NoRoleRefused ==
    /\ last.op = "check_permission"
    /\ employees[last.actor] = NoRole
    /\ last.target = "create_client"
    /\ last.ret = FALSE

\* C15: the signed flag is not derived from the amounts: an update_contract
\* call that carries remaining_amount and nothing else, and succeeds, leaves
\* status_signed as it was, also when the remaining amount reaches or
\* leaves 0.
C15_SignedNotDerivedFromAmounts ==
    [][(last'.op = "update_contract" /\ last'.ret = RetEntity
            /\ last'.target \in ContractIds)
          => \A kw \in ContractKwargs :
                (DOMAIN kw = {"remaining_amount"}
                     /\ update_contract(last'.actor, last'.target, kw))
                => contracts'[last'.target].status_signed
                       = contracts[last'.target].status_signed]_vars

\* C16: update_contract with status_signed and no other field succeeds and
\* leaves the flag at the value given, when the caller is the Commercial
\* employee who owns the contract and the value is true, and when the caller
\* is of Gestion, whatever the value and the contract.
C16_ExplicitSignedApplied ==
    [][(last'.op = "update_contract" /\ last'.target \in ContractIds)
          => \A v \in BOOLEAN :
                (/\ update_contract(last'.actor, last'.target,
                                    [k \in {"status_signed"} |-> v])
                 /\ \/ department(last'.actor) = "Gestion"
                    \/ /\ v
                       /\ department(last'.actor) = "Commercial"
                       /\ contracts[last'.target].sales_contact_id = last'.actor)
                => /\ last'.ret = RetEntity
                   /\ contracts'[last'.target].status_signed = v]_vars

C19_EventsWellFormed ==
    \A i \in EventIds :
        /\ events[i].event_start < events[i].event_end
        /\ events[i].attendees >= 0

\* C20: create_event by the Commercial employee who is the sales contact of
\* a signed contract, with start_date before end_date, returns the new
\* event; the event references that contract and has no support contact.
C20_OwningSalesCreatesEvent ==
    [][\A cid \in ContractIds :
          (/\ last'.op = "create_event"
           /\ department(last'.actor) = "Commercial"
           /\ contracts[cid].status_signed
           /\ contracts[cid].sales_contact_id = last'.actor
           /\ Len(events) < MaxEvents
           /\ create_event(last'.actor, cid, "n1", 1, 1, 2, "l1", "t1"))
          => /\ last'.ret = RetEntity
             /\ events'[Len(events')].contract_id = cid
             /\ events'[Len(events')].support_contact_id = NULL]_vars

\* C21: create_contract is reserved to Gestion: a create_contract call that
\* stores a contract is the call of a Gestion employee, so no contract is
\* created by a Commercial or Support employee.
C21_ManagementOnlyActions ==
    (last.op = "create_contract" /\ last.ret = RetEntity)
    => department(last.actor) = "Gestion"

\* C22: every stored client has a sales_contact_id that is the id of an
\* employee whose department is Commercial.
C22_ClientsOwnedBySales ==
    \A i \in ClientIds :
        /\ clients[i].sales_contact_id \in DOMAIN employees
        /\ employees[clients[i].sales_contact_id] = "Commercial"

\* C23: the sales_contact_id of a stored client changes only in an
\* update_client call of a Gestion employee, to the id of an existing
\* Commercial employee; a request that gives a sales_contact_id and comes
\* from another department (the owner included), or gives an id that is not
\* a Commercial employee, returns no entity and leaves the clients as they
\* were (no successful step is the step of such a request).
C23_OwnerReassignedOnlyByManagement ==
    [][/\ \A id \in ClientIds :
            clients'[id].sales_contact_id # clients[id].sales_contact_id
            => /\ last'.op = "update_client"
               /\ last'.target = id
               /\ last'.ret = RetEntity
               /\ department(last'.actor) = "Gestion"
               /\ clients'[id].sales_contact_id \in DOMAIN employees
               /\ employees[clients'[id].sales_contact_id] = "Commercial"
       /\ (last'.op = "update_client" /\ last'.target \in ClientIds)
            => \/ /\ last'.ret \in {RetNone, RetDenied}
                  /\ UNCHANGED clients
               \/ \A kw \in SalesContactRequests :
                     (\/ department(last'.actor) # "Gestion"
                      \/ kw["sales_contact_id"] \notin DOMAIN employees
                      \/ employees[kw["sales_contact_id"]] # "Commercial")
                     => ~update_client(last'.actor, last'.target, kw)]_vars

\* a Gestion employee has updated a client that is now owned by Commercial
\* employee 3 and has the other name
C23_ManagementReassignedOwner ==
    /\ last.op = "update_client"
    /\ last.ret = RetEntity
    /\ department(last.actor) = "Gestion"
    /\ clients[last.target].sales_contact_id = 3
    /\ clients[last.target].full_name = "n2"

\* C24: a create_contract call that returns a contract has stored one new
\* contract, on an existing client, whose sales_contact_id is the
\* sales_contact_id that client has at the call, whoever the creator is; no
\* other step adds a contract.
C24_ContractInheritsClientOwner ==
    [][/\ (last'.op = "create_contract" /\ last'.ret = RetEntity)
            => /\ Len(contracts') = Len(contracts) + 1
               /\ last'.target = Len(contracts')
               /\ contracts'[last'.target].client_id \in ClientIds
               /\ contracts'[last'.target].sales_contact_id
                    = clients[contracts'[last'.target].client_id].sales_contact_id
       /\ Len(contracts') # Len(contracts)
            => (last'.op = "create_contract" /\ last'.ret = RetEntity)]_vars

\* a contract has been created by an employee who is not the sales contact
\* it got
C24_CreatedForAnotherOwner ==
    /\ last.op = "create_contract"
    /\ last.ret = RetEntity
    /\ contracts[last.target].sales_contact_id # last.actor
    /\ department(contracts[last.target].sales_contact_id) = "Commercial"

\* C25: list_events called by a Support employee s returns, with no scope or
\* 'default', exactly the events assigned to s or unassigned; with 'mine',
\* exactly those assigned to s; with 'unassigned', exactly the unassigned
\* ones; and with any scope other than 'all_db', no event assigned to
\* another employee.
C25_SupportSeesOthersOnlyOnAllDb ==
    [][(last'.op = "list_events" /\ department(last'.actor) = "Support")
          => \A scope \in SupportScopes :
                list_events(last'.actor, last'.target, scope)
                => LET mine == {i \in EventIds :
                                    events[i].support_contact_id = last'.actor}
                       unassigned == {i \in EventIds :
                                    events[i].support_contact_id = NULL}
                   IN  /\ scope \in {"None", "default"}
                            => last'.rows = mine \cup unassigned
                       /\ scope = "mine" => last'.rows = mine
                       /\ scope = "unassigned" => last'.rows = unassigned
                       /\ scope # "all_db"
                            => last'.rows \subseteq mine \cup unassigned]_vars

C28_ConcurrentUpdatesKeepRange ==
    \A i \in ContractIds :
        /\ 0 <= contracts[i].remaining_amount
        /\ contracts[i].remaining_amount <= contracts[i].total_amount

\* C29: an update_client call that changes a client's sales_contact_id leaves
\* every contract and every event as it was; an update_contract call that
\* changes a contract's sales_contact_id leaves every client and every event
\* as it was; an update_event call that changes support_contact_id leaves
\* every client and every contract as it was.
C29_OwnershipChangedIndependently ==
    [][/\ (/\ last'.op = "update_client"
            /\ \E i \in ClientIds :
                  clients'[i].sales_contact_id # clients[i].sales_contact_id)
          => UNCHANGED <<contracts, events>>
       /\ (/\ last'.op = "update_contract"
            /\ \E i \in ContractIds :
                  contracts'[i].sales_contact_id # contracts[i].sales_contact_id)
          => UNCHANGED <<clients, events>>
       /\ (/\ last'.op = "update_event"
            /\ \E e \in EventIds :
                  events'[e].support_contact_id # events[e].support_contact_id)
          => UNCHANGED <<clients, contracts>>]_vars

\* update_client has returned the client and a contract of that client, with
\* an event attached, keeps a sales contact that is not the client's
C29_ContractOwnerDiffersFromClient ==
    /\ last.op = "update_client"
    /\ last.ret = RetEntity
    /\ \E i \in ContractIds :
          /\ contracts[i].client_id = last.target
          /\ contracts[i].sales_contact_id # clients[last.target].sales_contact_id
          /\ \E e \in EventIds : events[e].contract_id = i

\* C30: in every state reached by create_contract, update_contract,
\* create_event and update_event calls, the contract of every stored event is
\* signed.
C30_EventContractStaysSigned ==
    \A e \in EventIds : contracts[events[e].contract_id].status_signed

====
